---- MODULE Spec2Model ----
(***************************************************************************)
(* Model of the user-story filter facets of taiga-back                     *)
(* (taiga/projects/userstories/services.py, get_userstories_filters_data   *)
(* and the four per-dimension functions it calls).                         *)
(*                                                                         *)
(* The data store is the four tables the queries read: users_user,         *)
(* projects_membership, projects_userstorystatus, userstories_userstory.   *)
(* A queryset is the set of user stories its WHERE clause selects.         *)
(* The order in which a cursor hands back rows that the SQL does not order *)
(* is a nondeterministic choice.                                           *)
(*                                                                         *)
(* Three further parts of the repository have a specification of their    *)
(* own, over their own variables: change_instance_attr of                  *)
(* taiga/base/decorators.py (SpecDecorators), close_userstory and          *)
(* open_userstory of the same services.py (SpecClosing), and WikiViewSet   *)
(* of taiga/projects/wiki/api.py (SpecWiki). Each specification holds the  *)
(* variables of the other parts at their idle values.                      *)
(***************************************************************************)
EXTENDS Integers, Sequences, FiniteSets, TLC

VARIABLES users, memberships, statuses, userstories,
          project, querysets,
          inv, pc, data, result

(* taiga/base/decorators.py, change_instance_attr: the value the attribute *)
(* `name` of the instance holds, the wrapper calls in progress (innermost  *)
(* last) and how the call that terminated last ended.                      *)
VARIABLES instance, calls, ended

(* close_userstory / open_userstory: the user story instance the caller    *)
(* holds, its row in userstories_userstory, the time timezone.now() gives  *)
(* and the call made last.                                                 *)
VARIABLES story, saved, clock, called

(* taiga/projects/wiki/api.py, WikiViewSet: the tables projects_project    *)
(* (the owner of each project), projects_membership and wiki_wikipage, and *)
(* what the last request was answered.                                     *)
VARIABLES projects_project, wiki_memberships, wiki_wikipage, response

store == <<users, memberships, statuses, userstories>>
args  == <<project, querysets>>

servicesVars   == <<users, memberships, statuses, userstories,
                    project, querysets, inv, pc, data, result>>
decoratorsVars == <<instance, calls, ended>>

closingVars    == <<story, saved, clock, called>>

wikiStore      == <<projects_project, wiki_memberships, wiki_wikipage>>
wikiVars       == <<projects_project, wiki_memberships, wiki_wikipage, response>>

vars == <<servicesVars, decoratorsVars, closingVars, wikiVars>>

(* What a step of get_userstories_filters_data leaves alone besides its    *)
(* own arguments and results.                                              *)
beyondServices   == <<decoratorsVars, closingVars, wikiVars>>
beyondDecorators == <<servicesVars, closingVars, wikiVars>>
beyondClosing    == <<servicesVars, decoratorsVars, wikiVars>>
beyondWiki       == <<servicesVars, decoratorsVars, closingVars>>

----------------------------------------------------------------------------
(* Bounds of the model.                                                    *)

NumStories  == 2

Projects    == {1, 2}
Users       == {1, 2}
StatusIds   == {1, 2}
StoryIds    == 1..NumStories
Orders      == {1, 2}
FullNames   == {"", "Alice", "Bob"}
TagNames    == {"bug", "ui"}
Invocations == {1, 2}

(* SQL NULL / Python None for an id column; ids start at 1.                *)
NULL == 0
(* Python None where a string may stand.                                   *)
None == "None"
(* The tags column: NULL, or an array of text.                             *)
NullTags == [is_null |-> TRUE, list |-> <<>>]
TagArray(l) == [is_null |-> FALSE, list |-> l]

(* Python compares str by code point; the strings of the model in order.   *)
Collate == [s \in FullNames \cup TagNames |->
              CASE s = ""      -> 0
                [] s = "Alice" -> 1
                [] s = "Bob"   -> 2
                [] s = "bug"   -> 3
                [] s = "ui"    -> 4]

(* SQL "a = b": never true when either side is NULL.                       *)
SqlEq(a, b) == a # NULL /\ b # NULL /\ a = b

(* Every order in which a cursor can hand back the rows of S.              *)
RowOrders(S) ==
  {f \in [1..Cardinality(S) -> S] : \A i, j \in 1..Cardinality(S) : i # j => f[i] # f[j]}

(* key(a) < key(b) for the sort keys the code uses.                        *)
KeyLess(key, a, b) ==
  IF key = "order" THEN a[key] < b[key] ELSE Collate[a[key]] < Collate[b[key]]

(* The list as it is, not sorted.                                          *)
unsorted(s, key) == s

(* sorted(result, key=itemgetter(key)): a stable sort.                     *)
RECURSIVE sorted(_, _)
sorted(s, key) ==
  IF s = <<>> THEN <<>>
  ELSE LET x    == s[Len(s)]
           done == sorted(SubSeq(s, 1, Len(s) - 1), key)
           k    == Cardinality({i \in 1..Len(done) : ~KeyLess(key, x, done[i])})
       IN  SubSeq(done, 1, k) \o <<x>> \o SubSeq(done, k + 1, Len(done))

(* ugettext: the active catalog's translation of a message, or the message *)
(* itself when the catalog has none.                                       *)
Catalog == [m \in {"New"} |-> "Nueva"]
ugettext(name) == IF name \in DOMAIN Catalog THEN Catalog[name] ELSE name

StatusNames == [s \in StatusIds |-> IF s = 1 THEN "New" ELSE "Done"]
StatusColor == "#999999"

----------------------------------------------------------------------------
(* _get_userstories_statuses                                               *)

(* (SELECT count( * ) FROM userstories_userstory INNER JOIN projects_project *)
(*   WHERE {where} AND status_id = projects_userstorystatus.id)            *)
StatusCount(queryset, s) ==
  Cardinality({us \in queryset : SqlEq(userstories[us].status, s)})

(* StatusRows with the count joined in (INNER JOIN ... GROUP BY) instead   *)
(* of a subquery: a status without stories gets no row.                    *)
StatusRowsJoined(p, queryset) ==
  {<<s, statuses[s].name, statuses[s].color, statuses[s].order, StatusCount(queryset, s)>> :
     s \in {t \in StatusIds : statuses[t].project = p /\ StatusCount(queryset, t) > 0}}

(* The rows of the statuses query: one per status of the project.          *)
StatusRows(p, queryset) ==
  {<<s, statuses[s].name, statuses[s].color, statuses[s].order, StatusCount(queryset, s)>> :
     s \in {t \in StatusIds : statuses[t].project = p}}

(* cursor.fetchall() under ORDER BY "order": rows of equal order come in   *)
(* any order.                                                              *)
StatusFetchAll(p, queryset) ==
  {rows \in RowOrders(StatusRows(p, queryset)) :
     \A i, j \in 1..Len(rows) : i < j => rows[i][4] <= rows[j][4]}

StatusDicts(rows) ==
  [i \in 1..Len(rows) |->
     [id |-> rows[i][1], name |-> ugettext(rows[i][2]), color |-> rows[i][3],
      order |-> rows[i][4], count |-> rows[i][5]]]

StatusFacet(rows) == sorted(StatusDicts(rows), "order")

----------------------------------------------------------------------------
(* _get_userstories_assigned_to                                            *)

(* UnassignedCount with a further condition project_id = %s.               *)
UnassignedCountInProject(queryset) ==
  Cardinality({us \in queryset :
                 userstories[us].assigned_to = NULL /\ userstories[us].project = project})

(* (SELECT count( * ) ... WHERE {where} AND assigned_to_id IS NULL)        *)
UnassignedCount(queryset) ==
  Cardinality({us \in queryset : userstories[us].assigned_to = NULL})

(* (SELECT count( * ) ... WHERE {where} AND assigned_to_id = projects_membership.user_id) *)
AssignedCount(queryset, m) ==
  Cardinality({us \in queryset : SqlEq(userstories[us].assigned_to, m.user)})

(* ProjectMemberships without the project_id condition.                    *)
AllMemberships(p) ==
  {m \in memberships : \E u \in Users : SqlEq(m.user, u) /\ m.user # NULL}

(* projects_membership INNER JOIN users_user ON user_id = users_user.id    *)
(* WHERE projects_membership.project_id = %s AND user_id IS NOT NULL       *)
ProjectMemberships(p) ==
  {m \in memberships : \E u \in Users : SqlEq(m.user, u) /\ m.project = p /\ m.user # NULL}

(* SELECT NULL, NULL, count UNION SELECT id, full_name, count: UNION keeps *)
(* one copy of each distinct row.                                          *)
AssignedToRows(p, queryset) ==
  {<<NULL, None, UnassignedCount(queryset)>>}
    \cup {<<m.user, users[m.user].full_name, AssignedCount(queryset, m)>> :
            m \in ProjectMemberships(p)}

(* cursor.fetchall(): the query has no ORDER BY.                           *)
AssignedToFetchAll(p, queryset) == RowOrders(AssignedToRows(p, queryset))

(* full_name or "" *)
OrEmpty(full_name) == IF full_name = None \/ full_name = "" THEN "" ELSE full_name

AssignedToDicts(rows) ==
  [i \in 1..Len(rows) |->
     [id |-> rows[i][1], full_name |-> OrEmpty(rows[i][2]), count |-> rows[i][3]]]

(* The dicts in the order of the rows.                                     *)
AssignedToFacetAsFetched(rows) == AssignedToDicts(rows)

AssignedToFacet(rows) == sorted(AssignedToDicts(rows), "full_name")

----------------------------------------------------------------------------
(* _get_userstories_owners                                                 *)

(* The membership columns of a user row that no membership joins.          *)
NoMembership == [user |-> NULL, project |-> NULL]

(* projects_membership RIGHT OUTER JOIN users_user ON user_id = users_user.id: *)
(* every (membership, user) pair that joins, and every user that joins no  *)
(* membership once, with NULL membership columns.                          *)
RightOuterJoin ==
  {<<m, u>> \in memberships \X Users : SqlEq(m.user, u)}
    \cup {<<NoMembership, u>> : u \in {v \in Users : \A m \in memberships : ~SqlEq(m.user, v)}}

(* WHERE ((project_id = %s AND user_id IS NOT NULL) OR is_system IS TRUE)  *)
OwnerJoinRows(p) ==
  {r \in RightOuterJoin :
     (SqlEq(r[1].project, p) /\ r[1].user # NULL) \/ users[r[2]].is_system}

(* (SELECT count( * ) ... WHERE {where} AND owner_id = projects_membership.user_id) *)
OwnerCount(queryset, m) ==
  Cardinality({us \in queryset : SqlEq(userstories[us].owner, m.user)})

OwnerRow(queryset, r) == <<r[2], users[r[2]].full_name, OwnerCount(queryset, r[1])>>

(* cursor.fetchall(): one row per joined pair (no UNION, no DISTINCT), in  *)
(* any order.                                                              *)
OwnersFetchAll(p, queryset) ==
  {[i \in 1..Len(js) |-> OwnerRow(queryset, js[i])] : js \in RowOrders(OwnerJoinRows(p))}

(* if count >= 0 *)
OwnerKeepZero(row) == row[3] >= 0

(* if count > 0: result.append(...)                                        *)
OwnerKeep(row) == row[3] > 0

RECURSIVE OwnerDicts(_)
OwnerDicts(rows) ==
  IF rows = <<>> THEN <<>>
  ELSE LET row == Head(rows)
       IN  (IF OwnerKeep(row)
              THEN <<[id |-> row[1], full_name |-> row[2], count |-> row[3]]>>
              ELSE <<>>) \o OwnerDicts(Tail(rows))

OwnersFacet(rows) == sorted(OwnerDicts(rows), "full_name")

----------------------------------------------------------------------------
(* _get_userstories_tags                                                   *)

(* The tags column of every user story, whatever the queryset selects.     *)
TagsValuesListAll(queryset) ==
  {[i \in 1..Len(o) |-> userstories[o[i]].tags] : o \in RowOrders(StoryIds)}

(* queryset.values_list("tags", flat=True): the tags column of each row.   *)
TagsValuesList(queryset) ==
  {[i \in 1..Len(o) |-> userstories[o[i]].tags] : o \in RowOrders(queryset)}

(* for t_list in ...: if t_list is None: continue; tags += list(t_list)    *)
RECURSIVE FlattenTags(_)
FlattenTags(lists) ==
  IF lists = <<>> THEN <<>>
  ELSE (IF Head(lists).is_null THEN <<>> ELSE Head(lists).list) \o FlattenTags(Tail(lists))

(* tags.count(e) *)
ListCount(tags, e) == Cardinality({i \in 1..Len(tags) : tags[i] = e})

(* [{"name": e, "count": tags.count(e)} for e in set(tags)]: a set is      *)
(* iterated in any order.                                                  *)
TagDicts(tags) ==
  {[i \in 1..Len(o) |-> [name |-> o[i], count |-> ListCount(tags, o[i])]] :
     o \in RowOrders({tags[i] : i \in 1..Len(tags)})}

TagsFacets(queryset) ==
  UNION {{sorted(d, "name") : d \in TagDicts(FlattenTags(l))} : l \in TagsValuesList(queryset)}

----------------------------------------------------------------------------
(* get_userstories_filters_data                                            *)

Dimensions == <<"statuses", "assigned_to", "owners", "tags">>

(* A mapping that leaves out the keys whose facet is empty.                *)
RECURSIVE OrderedDictNonEmpty(_)
OrderedDictNonEmpty(pairs) ==
  IF pairs = <<>> THEN <<>>
  ELSE (IF Head(pairs)[2] = <<>> THEN <<>> ELSE <<Head(pairs)>>)
         \o OrderedDictNonEmpty(Tail(pairs))

(* OrderedDict(pairs): keys in the order of their first insertion, each    *)
(* with the value of its last pair.                                        *)
OrderedDict(pairs) ==
  LET first == {i \in 1..Len(pairs) : \A j \in 1..(i - 1) : pairs[j][1] # pairs[i][1]}
      last(k) == CHOOSE i \in 1..Len(pairs) :
                   pairs[i][1] = k /\ \A j \in (i + 1)..Len(pairs) : pairs[j][1] # k
      nth(n) == CHOOSE i \in first : Cardinality({j \in first : j < i}) = n - 1
  IN  [n \in 1..Cardinality(first) |-> <<pairs[nth(n)][1], pairs[last(pairs[nth(n)][1])][2]>>]

(* What an invocation has handed its caller: nothing yet, the mapping it   *)
(* returned, or the exception of the query that failed.                    *)
NoResult == [kind |-> "none", value |-> <<>>, query |-> "none"]
Returned(value) == [kind |-> "returned", value |-> value, query |-> "none"]
Raised(query) == [kind |-> "raised", value |-> <<>>, query |-> query]

(* A caller invokes get_userstories_filters_data(project, querysets), and  *)
(* once it has the mapping invokes it again with the same arguments; the   *)
(* function is synchronous, so the invocations follow one another.         *)
Invoke ==
  /\ pc = "idle"
  /\ inv < Cardinality(Invocations)
  /\ inv > 0 => result[inv].kind = "returned"
  /\ inv' = inv + 1
  /\ pc' = "statuses"
  /\ data' = <<>>
  /\ UNCHANGED <<store, args, result>>
  /\ UNCHANGED beyondServices

(* ("statuses", _get_userstories_statuses(project, querysets["statuses"])) *)
GetStatuses ==
  /\ pc = "statuses"
  /\ \E rows \in StatusFetchAll(project, querysets["statuses"]) :
       data' = Append(data, <<"statuses", StatusFacet(rows)>>)
  /\ pc' = "assigned_to"
  /\ UNCHANGED <<store, args, inv, result>>
  /\ UNCHANGED beyondServices

(* ("assigned_to", _get_userstories_assigned_to(project, querysets["assigned_to"])) *)
GetAssignedTo ==
  /\ pc = "assigned_to"
  /\ \E rows \in AssignedToFetchAll(project, querysets["assigned_to"]) :
       data' = Append(data, <<"assigned_to", AssignedToFacet(rows)>>)
  /\ pc' = "owners"
  /\ UNCHANGED <<store, args, inv, result>>
  /\ UNCHANGED beyondServices

(* ("owners", _get_userstories_owners(project, querysets["owners"]))       *)
GetOwners ==
  /\ pc = "owners"
  /\ \E rows \in OwnersFetchAll(project, querysets["owners"]) :
       data' = Append(data, <<"owners", OwnersFacet(rows)>>)
  /\ pc' = "tags"
  /\ UNCHANGED <<store, args, inv, result>>
  /\ UNCHANGED beyondServices

(* The tags are computed and each story without a tags array is saved      *)
(* with an empty one.                                                      *)
GetTagsSaving ==
  /\ pc = "tags"
  /\ \E facet \in TagsFacets(querysets["tags"]) :
       data' = Append(data, <<"tags", facet>>)
  /\ pc' = "return"
  /\ userstories' = [us \in StoryIds |->
                       IF userstories[us].tags.is_null
                       THEN [userstories[us] EXCEPT !.tags = TagArray(<<>>)]
                       ELSE userstories[us]]
  /\ UNCHANGED <<users, memberships, statuses, args, inv, result>>
  /\ UNCHANGED beyondServices

(* ("tags", _get_userstories_tags(querysets["tags"]))                      *)
GetTags ==
  /\ pc = "tags"
  /\ \E facet \in TagsFacets(querysets["tags"]) :
       data' = Append(data, <<"tags", facet>>)
  /\ pc' = "return"
  /\ UNCHANGED <<store, args, inv, result>>
  /\ UNCHANGED beyondServices

(* data = OrderedDict([...]); return data                                  *)
Return ==
  /\ pc = "return"
  /\ result' = [result EXCEPT ![inv] = Returned(OrderedDict(data))]
  /\ pc' = "idle"
  /\ data' = <<>>
  /\ UNCHANGED <<store, args, inv>>
  /\ UNCHANGED beyondServices

(* The exception is caught and the facets computed so far are returned.    *)
PropagateCaught(partial, query) ==
  [kind |-> "returned", value |-> partial, query |-> "none"]

(* What the caller gets when a dimension's query raises: nothing catches   *)
(* the exception, so it leaves get_userstories_filters_data and the pairs  *)
(* computed so far are dropped.                                            *)
Propagate(partial, query) == Raised(query)

(* The data store fails the query of the dimension being computed.         *)
QueryFails ==
  /\ pc \in {"statuses", "assigned_to", "owners", "tags"}
  /\ result' = [result EXCEPT ![inv] = Propagate(data, pc)]
  /\ pc' = "idle"
  /\ data' = <<>>
  /\ UNCHANGED <<store, args, inv>>
  /\ UNCHANGED beyondServices

Next ==
  \/ Invoke
  \/ GetStatuses
  \/ GetAssignedTo
  \/ GetOwners
  \/ GetTags
  \/ Return
  \/ QueryFails

----------------------------------------------------------------------------
(* taiga/base/decorators.py: change_instance_attr(name, new_value).        *)
(*                                                                         *)
(* A method wrapped by the decorator is called on an instance. `instance`  *)
(* is the value of the attribute `name` of that instance, Missing when the *)
(* instance has no such attribute. The wrapped function is arbitrary code: *)
(* it may assign or delete the attribute, call a wrapped method of the     *)
(* same instance, return a value or raise.                                 *)

MaxDepth == 2

Values == {1, 2}
(* instance.__getattribute__(name) raises AttributeError.                  *)
Missing == 0

(* The frame of one call of wrapper: where it stands, new_value of its     *)
(* decorator, the locals changed, old_value and ret, and what the          *)
(* attribute was just before the call and when fn started.                 *)
Frame(nv, current) ==
  [at |-> "try", new_value |-> nv, changed |-> FALSE, old_value |-> Missing,
   ret |-> Missing, before |-> current, seen |-> Missing]

NoCall == [kind |-> "none", new_value |-> Missing, before |-> Missing,
           after |-> Missing, ret |-> Missing]
Terminated(kind, frame, current) ==
  [kind |-> kind, new_value |-> frame.new_value, before |-> frame.before,
   after |-> current, ret |-> frame.ret]

Top == calls[Len(calls)]
SetTop(frame) == [calls EXCEPT ![Len(calls)] = frame]
Pop == SubSeq(calls, 1, Len(calls) - 1)

(* The wrapped method is called, by a caller outside or by the wrapped     *)
(* function of the call in progress.                                       *)
wrapper ==
  /\ Len(calls) < MaxDepth
  /\ calls # <<>> => Top.at = "fn"
  /\ \E nv \in Values : calls' = Append(calls, Frame(nv, instance))
  /\ UNCHANGED <<instance, ended>>
  /\ UNCHANGED beyondDecorators

(* try: old_value = instance.__getattribute__(name); changed = True        *)
(* except AttributeError: changed = False                                  *)
GetAttribute ==
  /\ calls # <<>> /\ Top.at = "try"
  /\ calls' = SetTop(IF instance # Missing
                     THEN [Top EXCEPT !.at = "set", !.old_value = instance,
                                      !.changed = TRUE]
                     ELSE [Top EXCEPT !.at = "set", !.changed = FALSE])
  /\ UNCHANGED <<instance, ended>>
  /\ UNCHANGED beyondDecorators

(* if changed: instance.__setattr__(name, new_value); then fn is entered.  *)
SetAttr ==
  /\ calls # <<>> /\ Top.at = "set"
  /\ instance' = IF Top.changed THEN Top.new_value ELSE instance
  /\ calls' = SetTop([Top EXCEPT !.at = "fn", !.seen = instance'])
  /\ UNCHANGED ended
  /\ UNCHANGED beyondDecorators

(* fn assigns the attribute, or deletes it.                                *)
FnAssigns ==
  /\ calls # <<>> /\ Top.at = "fn"
  /\ \E v \in Values \cup {Missing} : v # instance /\ instance' = v
  /\ UNCHANGED <<calls, ended>>
  /\ UNCHANGED beyondDecorators

(* ret = fn(instance, *args, **kwargs)                                     *)
FnReturns ==
  /\ calls # <<>> /\ Top.at = "fn"
  /\ \E r \in Values : calls' = SetTop([Top EXCEPT !.at = "restore", !.ret = r])
  /\ UNCHANGED <<instance, ended>>
  /\ UNCHANGED beyondDecorators

(* The attribute is left as fn left it.                                    *)
RestoredNever(frame, current) == current

(* if changed: instance.__setattr__(name, old_value)                       *)
Restored(frame, current) == IF frame.changed THEN frame.old_value ELSE current

(* The wrapper restores the attribute and returns ret.                     *)
Restore ==
  /\ calls # <<>> /\ Top.at = "restore"
  /\ instance' = Restored(Top, instance)
  /\ ended' = Terminated("returned", Top, instance')
  /\ calls' = Pop
  /\ UNCHANGED beyondDecorators

(* What the attribute holds when an exception of fn has left the wrapper:  *)
(* the call of fn is in no try block, so the statements after it are       *)
(* skipped.                                                                *)
RaisedThrough(frame, current) == current

(* fn raises: the exception leaves the wrapper and reaches the caller.     *)
FnRaises ==
  /\ calls # <<>> /\ Top.at = "fn"
  /\ instance' = RaisedThrough(Top, instance)
  /\ ended' = Terminated("raised", Top, instance')
  /\ calls' = Pop
  /\ UNCHANGED beyondDecorators

----------------------------------------------------------------------------
(* taiga/projects/userstories/services.py: close_userstory(us) and         *)
(* open_userstory(us).                                                     *)

MaxTime == 4

(* The values timezone.now() can give; a finish_date that is not set is    *)
(* NULL.                                                                   *)
Times == 1..MaxTime

(* The fields of a user story that matter here: the two the functions      *)
(* write and, for the others, the status.                                  *)
UserStory(is_closed, finish_date, status) ==
  [is_closed |-> is_closed, finish_date |-> finish_date, status |-> status]

(* us.save(update_fields=["is_closed", "finish_date"])                     *)
Save(row, us) ==
  [row EXCEPT !.is_closed = us.is_closed, !.finish_date = us.finish_date]

(* The story is stamped closed whether it was open or not.                 *)
close_userstory_always(us, now) ==
  [us EXCEPT !.is_closed = TRUE, !.finish_date = now]

(* if not us.is_closed: us.is_closed = True; us.finish_date = now()        *)
close_userstory(us, now) ==
  IF ~us.is_closed
  THEN [us EXCEPT !.is_closed = TRUE, !.finish_date = now]
  ELSE us

(* if us.is_closed: us.is_closed = False; us.finish_date = None            *)
open_userstory(us) ==
  IF us.is_closed
  THEN [us EXCEPT !.is_closed = FALSE, !.finish_date = NULL]
  ELSE us

NotCalled == [op |-> "none", before |-> UserStory(FALSE, NULL, 1), at |-> NULL]
Called(op, us, now) == [op |-> op, before |-> us, at |-> now]

(* close_userstory(story); the save happens only inside the if.            *)
CloseUserStory ==
  /\ story' = close_userstory(story, clock)
  /\ saved' = IF ~story.is_closed THEN Save(saved, story') ELSE saved
  /\ called' = Called("close", story, clock)
  /\ UNCHANGED clock
  /\ UNCHANGED beyondClosing

(* open_userstory(story); the save happens only inside the if.             *)
OpenUserStory ==
  /\ story' = open_userstory(story)
  /\ saved' = IF story.is_closed THEN Save(saved, story') ELSE saved
  /\ called' = Called("open", story, clock)
  /\ UNCHANGED clock
  /\ UNCHANGED beyondClosing

(* Time passes between two calls.                                          *)
Tick ==
  /\ clock < MaxTime
  /\ clock' = clock + 1
  /\ UNCHANGED <<story, saved, called>>
  /\ UNCHANGED beyondClosing

----------------------------------------------------------------------------
(* taiga/projects/wiki/api.py: WikiViewSet.render, pre_conditions_on_save  *)
(* and pre_save.                                                           *)
(*                                                                         *)
(* permission_classes = (IsAuthenticated,): request.user is a user.        *)
(* get_object_or_404 and mdrender are called as library functions:         *)
(* get_object_or_404 raises Http404 when no row has the pk, mdrender gives *)
(* a rendering that depends on the project and on the content.             *)

Contents == {"", "*a*", "# b"}

(* `not content`: the parameter is missing (None) or empty.                *)
NotContent(content) == content = None \/ content = ""
(* `not project_id`: the parameter is missing or empty.                    *)
NotProjectId(project_id) == project_id = NULL

mdrender(p, content) == <<"html", p, content>>

NoResponse ==
  [op |-> "none", kind |-> "none", about |-> "none", data |-> <<>>,
   user |-> NULL, content |-> None, project_id |-> NULL]
(* What a request of `user` with these parameters was answered.            *)
Answer(op, kind, about, rendered, user, content, project_id) ==
  [op |-> op, kind |-> kind, about |-> about, data |-> rendered,
   user |-> user, content |-> content, project_id |-> project_id]

(* The project_id parameter is examined before the content parameter.      *)
render_project_first(user, content, project_id) ==
  IF NotProjectId(project_id)
  THEN Answer("render", "WrongArguments", "project_id", <<>>, user, content, project_id)
  ELSE IF NotContent(content)
  THEN Answer("render", "WrongArguments", "content", <<>>, user, content, project_id)
  ELSE IF project_id \notin DOMAIN projects_project
  THEN Answer("render", "Http404", "none", <<>>, user, content, project_id)
  ELSE Answer("render", "Response", "none", mdrender(project_id, content),
              user, content, project_id)

(* WikiViewSet.render(request): the answer to request.DATA.                *)
render(user, content, project_id) ==
  IF NotContent(content)
  THEN Answer("render", "WrongArguments", "content", <<>>, user, content, project_id)
  ELSE IF NotProjectId(project_id)
  THEN Answer("render", "WrongArguments", "project_id", <<>>, user, content, project_id)
  ELSE IF project_id \notin DOMAIN projects_project
  THEN Answer("render", "Http404", "none", <<>>, user, content, project_id)
  ELSE Answer("render", "Response", "none", mdrender(project_id, content),
              user, content, project_id)

(* POST .../render with any content and project_id, given or not.          *)
Render ==
  /\ \E user \in Users, content \in Contents \cup {None},
        project_id \in Projects \cup {NULL} :
       response' = render(user, content, project_id)
  /\ UNCHANGED wikiStore
  /\ UNCHANGED beyondWiki

(* A membership in any project lets the user through.                      *)
pre_conditions_on_save_anywhere(user, obj) ==
  ~ (/\ projects_project[obj.project].owner # user
     /\ Cardinality({m \in wiki_memberships : m.user = user}) = 0)

(* pre_conditions_on_save(obj): TRUE when it returns, FALSE when it raises *)
(* PermissionDenied. The hook of the base class it calls first accepts.    *)
pre_conditions_on_save(user, obj) ==
  ~ (/\ projects_project[obj.project].owner # user
     /\ Cardinality({m \in wiki_memberships :
                       m.project = obj.project /\ m.user = user}) = 0)

(* pre_save(obj): if not obj.owner: obj.owner = self.request.user          *)
pre_save(user, obj) ==
  IF obj.owner = NULL THEN [obj EXCEPT !.owner = user] ELSE obj

(* The object a create or update request for the page of project p makes   *)
(* of the stored page, if there is one, and the content sent.              *)
WikiPage(p, content) ==
  IF \E page \in wiki_wikipage : page.project = p
  THEN [(CHOOSE page \in wiki_wikipage : page.project = p) EXCEPT !.content = content]
  ELSE [project |-> p, owner |-> NULL, content |-> content]

(* A create or update of the wiki page of an existing project:             *)
(* pre_conditions_on_save(obj), pre_save(obj), obj.save().                 *)
SaveWikiPage ==
  \E user \in Users, p \in DOMAIN projects_project, content \in Contents :
    LET obj == WikiPage(p, content)
    IN  /\ IF pre_conditions_on_save(user, obj)
           THEN /\ wiki_wikipage' = {page \in wiki_wikipage : page.project # p}
                                      \cup {pre_save(user, obj)}
                /\ response' = Answer("save", "Saved", "none", <<>>, user, content, p)
           ELSE /\ wiki_wikipage' = wiki_wikipage
                /\ response' = Answer("save", "PermissionDenied", "none", <<>>,
                                      user, content, p)
        /\ UNCHANGED <<projects_project, wiki_memberships>>
        /\ UNCHANGED beyondWiki

(* Nothing of the facet computation is in progress.                        *)
ServicesIdle ==
  /\ users = <<>> /\ memberships = {} /\ statuses = <<>> /\ userstories = <<>>
  /\ project = 1 /\ querysets = <<>>
  /\ inv = 0 /\ pc = "idle" /\ data = <<>> /\ result = <<>>

(* No wrapped method has been called.                                      *)
DecoratorsIdle == instance = Missing /\ calls = <<>> /\ ended = NoCall

(* No user story is being closed or opened.                                *)
ClosingIdle ==
  /\ story = UserStory(FALSE, NULL, 1) /\ saved = story
  /\ clock = 1 /\ called = NotCalled

(* No wiki request has been made.                                          *)
WikiIdle ==
  /\ projects_project = <<>> /\ wiki_memberships = {} /\ wiki_wikipage = {}
  /\ response = NoResponse

InitDecorators ==
  /\ instance \in Values \cup {Missing}
  /\ calls = <<>>
  /\ ended = NoCall
  /\ ServicesIdle
  /\ ClosingIdle
  /\ WikiIdle

NextDecorators ==
  \/ wrapper
  \/ GetAttribute
  \/ SetAttr
  \/ FnAssigns
  \/ FnReturns
  \/ Restore
  \/ FnRaises

SpecDecorators == InitDecorators /\ [][NextDecorators]_vars

(* A user story loaded from its row, in which is_closed is true exactly    *)
(* when finish_date is set; a closed one was closed at some earlier time.  *)
InitClosing ==
  /\ clock \in Times
  /\ \E status \in StatusIds :
       \/ story = UserStory(FALSE, NULL, status)
       \/ \E t \in 1..clock : story = UserStory(TRUE, t, status)
  /\ saved = story
  /\ called = NotCalled
  /\ ServicesIdle
  /\ DecoratorsIdle
  /\ WikiIdle

NextClosing ==
  \/ CloseUserStory
  \/ OpenUserStory
  \/ Tick

SpecClosing == InitClosing /\ [][NextClosing]_vars

(* Project 1 exists, project 2 may; each has an owner; users hold          *)
(* memberships in existing projects; no wiki page is stored yet.           *)
InitWiki ==
  /\ \E existing \in {{1}, {1, 2}} :
       /\ projects_project \in [existing -> [owner : Users]]
       /\ wiki_memberships \in SUBSET [user : Users, project : existing]
  /\ wiki_wikipage = {}
  /\ response = NoResponse
  /\ ServicesIdle
  /\ DecoratorsIdle
  /\ ClosingIdle

NextWiki ==
  \/ Render
  \/ SaveWikiPage

SpecWiki == InitWiki /\ [][NextWiki]_vars

----------------------------------------------------------------------------
(* The inputs: a data store and the arguments of the call.                 *)

TagLists == {<<>>} \cup {<<a>> : a \in TagNames} \cup {<<a, b>> : a, b \in TagNames}
TagColumns == {NullTags} \cup {TagArray(l) : l \in TagLists}

UserRows(names, flags) == [Users -> [full_name : names, is_system : flags]]

MembershipRows(us, ps) == SUBSET [user : us, project : ps]

StatusRowsOf(ps, os) ==
  {[s \in StatusIds |->
      [project |-> f[s].project, name |-> StatusNames[s], color |-> StatusColor,
       order |-> f[s].order]] : f \in [StatusIds -> [project : ps, order : os]]}

StoryRows(ps, ss, as, os, ts) ==
  [StoryIds -> [project : ps, status : ss, assigned_to : as, owner : os, tags : ts]]

(* Both statuses in project 1, "New" before "Done".                        *)
DefaultStatuses ==
  [s \in StatusIds |->
     [project |-> 1, name |-> StatusNames[s], color |-> StatusColor, order |-> s]]

QuerySets(dim) ==
  {[d \in {"statuses", "assigned_to", "owners", "tags"} |-> IF d = dim THEN q ELSE StoryIds] :
     q \in SUBSET StoryIds}

(* User 2 is "Alice" and no system account; user 1 is drawn from the given *)
(* names (a name that sorts after "Alice", the same name, the empty name)  *)
(* and flags.                                                              *)
UserRowsNamed(names, flags) ==
  {u \in UserRows(FullNames, BOOLEAN) :
     /\ u[1].full_name \in names /\ u[1].is_system \in flags
     /\ u[2].full_name = "Alice" /\ ~u[2].is_system}

(* An invitation to project 1 that nobody has accepted yet (a membership   *)
(* with no user), and any memberships of the users in project 1 and of     *)
(* user 1 in project 2.                                                    *)
Invitation == [user |-> NULL, project |-> 1]
MembershipsOf(us) ==
  {ms \cup {Invitation} :
     ms \in {n \in MembershipRows(us, Projects) : \A m \in n : m.project = 2 => m.user = 1}}

(* The status columns vary.                                                *)
InitStatuses ==
  /\ users \in UserRowsNamed({"Bob"}, {FALSE})
  /\ memberships \in {{Invitation, [user |-> 1, project |-> 1]}}
  /\ statuses \in StatusRowsOf(Projects, Orders)
  /\ userstories \in StoryRows(Projects, StatusIds \cup {NULL}, {NULL}, {1}, {NullTags})
  /\ querysets \in QuerySets("statuses")

(* The assignee columns, the users' names and the memberships vary.        *)
InitAssignedTo ==
  /\ users \in UserRowsNamed(FullNames, {FALSE})
  /\ memberships \in MembershipsOf(Users)
  /\ statuses = DefaultStatuses
  /\ userstories \in StoryRows(Projects, {1}, Users \cup {NULL}, {1}, {NullTags})
  /\ querysets \in QuerySets("assigned_to")

(* The owner columns, the users and the memberships vary; user 1 may be a  *)
(* system account.                                                         *)
InitOwners ==
  /\ users \in UserRowsNamed({"Alice", "Bob"}, BOOLEAN)
  /\ memberships \in MembershipsOf(Users)
  /\ statuses = DefaultStatuses
  /\ userstories \in StoryRows(Projects, {1}, {NULL}, Users \cup {NULL}, {NullTags})
  /\ querysets \in QuerySets("owners")

(* The tags columns vary.                                                  *)
InitTags ==
  /\ users \in UserRowsNamed({"Bob"}, {FALSE})
  /\ memberships \in {{Invitation, [user |-> 1, project |-> 1]}}
  /\ statuses = DefaultStatuses
  /\ userstories \in StoryRows(Projects, {1}, {NULL}, {1}, TagColumns)
  /\ querysets \in QuerySets("tags")

(* User stories differ only in their columns and in the querysets that     *)
(* select them, so one numbering of each collection of stories is enough:  *)
(* the one that lists them by StoryCode.                                   *)
TagsCode(c) ==
  IF c.is_null THEN 0
  ELSE 1 + Len(c.list) * 100
         + (IF Len(c.list) >= 1 THEN Collate[c.list[1]] * 10 ELSE 0)
         + (IF Len(c.list) >= 2 THEN Collate[c.list[2]] ELSE 0)

StoryCode(us) ==
  LET r == userstories[us]
      in(d) == IF us \in querysets[d] THEN 1 ELSE 0
  IN  ((((r.project * 10 + r.status) * 10 + r.assigned_to) * 10 + r.owner) * 1000
         + TagsCode(r.tags)) * 16
        + in("statuses") * 8 + in("assigned_to") * 4 + in("owners") * 2 + in("tags")

Canonical == \A us \in StoryIds \ {NumStories} : StoryCode(us) <= StoryCode(us + 1)

Init ==
  /\ \/ InitStatuses
     \/ InitAssignedTo
     \/ InitOwners
     \/ InitTags
  /\ Canonical
  /\ project = 1
  /\ inv = 0
  /\ pc = "idle"
  /\ data = <<>>
  /\ result = [i \in Invocations |-> NoResult]
  /\ DecoratorsIdle
  /\ ClosingIdle
  /\ WikiIdle

Spec == Init /\ [][Next]_vars

----------------------------------------------------------------------------
(* Reading the facets an invocation has computed.                          *)

HasReturned(i) == result[i].kind = "returned"

Keys(mapping) == [n \in 1..Len(mapping) |-> mapping[n][1]]

Get(mapping, key) == mapping[CHOOSE n \in 1..Len(mapping) : mapping[n][1] = key][2]

(* Every facet of dimension key computed so far: the one of the running    *)
(* invocation and those of the mappings returned.                          *)
Computed(key) ==
  {data[n][2] : n \in {m \in 1..Len(data) : data[m][1] = key}}
    \cup {Get(result[i].value, key) :
            i \in {j \in Invocations : HasReturned(j) /\ \E n \in 1..Len(result[j].value) :
                                                          result[j].value[n][1] = key}}

Records(f, id) == {n \in 1..Len(f) : f[n].id = id}

Members(p) == {u \in Users : \E m \in memberships : m.user = u /\ m.project = p}

----------------------------------------------------------------------------
(* C1: the status facet holds exactly one record per status of the         *)
(* project, statuses that no story of the filtered collection has          *)
(* included (count 0), and each record's count is the number of user       *)
(* stories of the status queryset whose status is that status.             *)
C1_StatusFacetExact ==
  \A f \in Computed("statuses") :
    /\ \A s \in StatusIds : statuses[s].project = project => Cardinality(Records(f, s)) = 1
    /\ \A n \in 1..Len(f) : f[n].id \in StatusIds /\ statuses[f[n].id].project = project
    /\ \A n \in 1..Len(f) :
         f[n].count = Cardinality({us \in querysets["statuses"] :
                                     userstories[us].status = f[n].id})

(* A facet with a status no story has (count 0) beside a status that a     *)
(* story of the queryset and a story outside the queryset both have.       *)
C1_Witness ==
  \E f \in Computed("statuses") :
    \E n, m \in 1..Len(f) :
      /\ f[n].count = 0
      /\ f[m].count = 1
      /\ \E us \in StoryIds \ querysets["statuses"] : userstories[us].status = f[m].id

(* C2: the assignee facet holds exactly one unassigned record (id null,    *)
(* empty label) counting the stories of the assignee queryset without      *)
(* assignee, exactly one record per member of the project (members with    *)
(* no story included) counting the stories of the queryset assigned to     *)
(* the member, and no other record.                                        *)
C2_AssignedToFacetExact ==
  \A f \in Computed("assigned_to") :
    /\ Cardinality(Records(f, NULL)) = 1
    /\ \A n \in Records(f, NULL) :
         /\ f[n].full_name = ""
         /\ f[n].count = Cardinality({us \in querysets["assigned_to"] :
                                        userstories[us].assigned_to = NULL})
    /\ \A u \in Members(project) :
         /\ Cardinality(Records(f, u)) = 1
         /\ \A n \in Records(f, u) :
              /\ f[n].full_name = users[u].full_name
              /\ f[n].count = Cardinality({us \in querysets["assigned_to"] :
                                             userstories[us].assigned_to = u})
    /\ \A n \in 1..Len(f) : f[n].id \in {NULL} \cup Members(project)

(* The unassigned record with a story, a member with a story and a member  *)
(* with none, in a store where a user is also a member of another project. *)
C2_Witness ==
  \E f \in Computed("assigned_to") :
    /\ Len(f) = 3
    /\ \E n \in Records(f, NULL) : f[n].count >= 1
    /\ \E n, m \in 1..Len(f) : f[n].id # NULL /\ f[n].count = 0 /\ f[m].id # NULL /\ f[m].count >= 1
    /\ \E m \in memberships : m.project # project

(* C3 as stated: a system account that owns a story of the owner queryset  *)
(* has a record in the owner facet with its id, its full name and the      *)
(* number of stories of the queryset it owns, whatever its memberships.    *)
C3_SystemOwnerListed ==
  \A f \in Computed("owners") :
    \A u \in Users :
      LET owned == Cardinality({us \in querysets["owners"] : userstories[us].owner = u})
      IN  users[u].is_system /\ owned > 0 =>
            \E n \in Records(f, u) :
              f[n].full_name = users[u].full_name /\ f[n].count = owned

(* C6: the owner facet holds no record of count zero, and every member of  *)
(* the project who owns a story of the owner queryset has a record whose   *)
(* count is the number of stories of the queryset the member owns.         *)
C6_OwnersPositive ==
  \A f \in Computed("owners") :
    /\ \A n \in 1..Len(f) : f[n].count # 0
    /\ \A u \in Members(project) :
         LET owned == Cardinality({us \in querysets["owners"] : userstories[us].owner = u})
         IN  owned > 0 => \E n \in Records(f, u) : f[n].count = owned

(* Two members of the project, one who owns a story of the queryset and    *)
(* has a record, one who owns none and has no record.                      *)
C6_Witness ==
  \E f \in Computed("owners") :
    \E u, v \in Members(project) :
      /\ Records(f, u) # {}
      /\ Records(f, v) = {}
      /\ \A us \in querysets["owners"] : userstories[us].owner # v

----------------------------------------------------------------------------
(* The number of times tag e occurs in the tags arrays of the stories S.   *)
RECURSIVE Occurrences(_, _)
Occurrences(S, e) ==
  IF S = {} THEN 0
  ELSE LET us == CHOOSE x \in S : TRUE
       IN  ListCount(userstories[us].tags.list, e) + Occurrences(S \ {us}, e)

InProject(S) == {us \in S : userstories[us].project = project}

(* Every count of the mapping is the count of the matching stories of S(d), *)
(* d the dimension; tags are counted by occurrence.                        *)
CountsOver(mapping, S(_)) ==
  /\ \A n \in 1..Len(Get(mapping, "statuses")) :
       LET r == Get(mapping, "statuses")[n]
       IN  r.count = Cardinality({us \in S("statuses") : userstories[us].status = r.id})
  /\ \A n \in 1..Len(Get(mapping, "assigned_to")) :
       LET r == Get(mapping, "assigned_to")[n]
       IN  r.count = Cardinality({us \in S("assigned_to") : userstories[us].assigned_to = r.id})
  /\ \A n \in 1..Len(Get(mapping, "owners")) :
       LET r == Get(mapping, "owners")[n]
       IN  r.count = Cardinality({us \in S("owners") : userstories[us].owner = r.id})
  /\ \A n \in 1..Len(Get(mapping, "tags")) :
       LET r == Get(mapping, "tags")[n]
       IN  r.count = Occurrences(S("tags"), r.name)

ProjectStories(d) == InProject(querysets[d])
QuerysetStories(d) == querysets[d]

(* C4 as stated: every count of every facet of a returned mapping counts   *)
(* only user stories of the given project, also when the dimension's       *)
(* queryset holds stories of other projects.                               *)
C4_CountsWithinProject ==
  \A i \in Invocations : HasReturned(i) => CountsOver(result[i].value, ProjectStories)

(* C4 amended: every count of every facet of a returned mapping counts the *)
(* matching user stories of the dimension's queryset, whatever project     *)
(* they belong to: a story of another project that the queryset selects is *)
(* counted like any other.                                                 *)
C4_CountsWithinQueryset ==
  \A i \in Invocations : HasReturned(i) => CountsOver(result[i].value, QuerysetStories)

(* A returned mapping whose unassigned count includes a story of another   *)
(* project.                                                                *)
C4_Witness ==
  \E i \in Invocations :
    /\ HasReturned(i)
    /\ \E us \in querysets["assigned_to"] :
         userstories[us].project # project /\ userstories[us].assigned_to = NULL
    /\ \E n \in Records(Get(result[i].value, "assigned_to"), NULL) :
         Get(result[i].value, "assigned_to")[n].count > Cardinality(
           {us \in InProject(querysets["assigned_to"]) : userstories[us].assigned_to = NULL})

(* The tag values that occur in the tags arrays of the stories S.          *)
TagsIn(S) ==
  {e \in TagNames : \E us \in S : \E k \in 1..Len(userstories[us].tags.list) :
                      userstories[us].tags.list[k] = e}

TagsHaving(e) == {us \in querysets["tags"] : e \in TagsIn({us})}

OneRecordPerTag(f) ==
  /\ {f[n].name : n \in 1..Len(f)} = TagsIn(querysets["tags"])
  /\ \A n, m \in 1..Len(f) : f[n].name = f[m].name => n = m

(* C5 as stated: the tag facet holds exactly one record per tag value that *)
(* occurs in the tag queryset, and its count is the number of user stories *)
(* whose tags contain the value; stories with null or empty tags count     *)
(* nowhere.                                                                *)
C5_TagCountsStories ==
  \A f \in Computed("tags") :
    /\ OneRecordPerTag(f)
    /\ \A n \in 1..Len(f) : f[n].count = Cardinality(TagsHaving(f[n].name))

(* C5 amended: the tag facet holds exactly one record per tag value that   *)
(* occurs in the tag queryset, and its count is the number of occurrences  *)
(* of the value in the tags arrays of the queryset's stories (a story that *)
(* lists a tag twice counts twice); stories with null or empty tags count  *)
(* nowhere.                                                                *)
C5_TagCountsOccurrences ==
  \A f \in Computed("tags") :
    /\ OneRecordPerTag(f)
    /\ \A n \in 1..Len(f) : f[n].count = Occurrences(querysets["tags"], f[n].name)

(* A facet over a queryset with a story whose tags are null and a story    *)
(* that lists one tag twice: the tag's record has count 2.                 *)
C5_Witness ==
  \E f \in Computed("tags") :
    \E us, vs \in querysets["tags"] :
      /\ userstories[us].tags.is_null
      /\ Len(userstories[vs].tags.list) = 2
      /\ userstories[vs].tags.list[1] = userstories[vs].tags.list[2]
      /\ \E n \in 1..Len(f) : f[n].name = userstories[vs].tags.list[1] /\ f[n].count = 2

----------------------------------------------------------------------------
(* The key each facet is sorted by.                                        *)
SortKey(d) == IF d = "statuses" THEN "order" ELSE IF d = "tags" THEN "name" ELSE "full_name"

NonDecreasing(f, key) ==
  \A n, m \in 1..Len(f) : n < m => ~KeyLess(key, f[m], f[n])

(* C7: in every returned mapping the status facet is in non-decreasing     *)
(* sort order of the statuses, the assignee and owner facets are in        *)
(* non-decreasing order of full name (the unassigned record's being the    *)
(* empty string), and the tag facet in non-decreasing order of tag name.   *)
C7_FacetsOrdered ==
  \A i \in Invocations :
    HasReturned(i) =>
      \A n \in 1..Len(result[i].value) :
        NonDecreasing(result[i].value[n][2], SortKey(result[i].value[n][1]))

(* A returned mapping whose assignee facet lists user 2 ("Alice") before   *)
(* user 1 ("Bob"), after the unassigned record.                            *)
C7_Witness ==
  \E i \in Invocations :
    /\ HasReturned(i)
    /\ LET f == Get(result[i].value, "assigned_to")
       IN  Len(f) = 3 /\ f[1].id = NULL /\ f[2].id = 2 /\ f[3].id = 1
             /\ f[2].full_name = "Alice" /\ f[3].full_name = "Bob"

(* C8 as stated: two invocations on the same project, querysets and data   *)
(* store return the same mapping, record for record and in the same order, *)
(* whatever order the data store hands back the rows in.                   *)
C8_Deterministic ==
  HasReturned(1) /\ HasReturned(2) => result[1].value = result[2].value

Copies(f, r) == Cardinality({n \in 1..Len(f) : f[n] = r})

(* The same records the same number of times, with the same sort key at    *)
(* each position.                                                          *)
SameUpToTies(f, g, key) ==
  /\ Len(f) = Len(g)
  /\ \A n \in 1..Len(f) : f[n][key] = g[n][key]
  /\ \A n \in 1..Len(f) : Copies(f, f[n]) = Copies(g, f[n])

(* C8 amended: two invocations on the same project, querysets and data     *)
(* store return mappings with the same keys and, in each facet, the same   *)
(* records in the same order, except that records of one facet with equal  *)
(* sort key (statuses of equal order, people of equal full name) may come  *)
(* in either order, as the data store hands back their rows.               *)
C8_DeterministicUpToTies ==
  HasReturned(1) /\ HasReturned(2) =>
    /\ Keys(result[1].value) = Keys(result[2].value)
    /\ \A n \in 1..Len(result[1].value) :
         SameUpToTies(result[1].value[n][2], result[2].value[n][2],
                      SortKey(result[1].value[n][1]))

(* Two returned mappings with the same assignee facet, whose status facets *)
(* hold the same two statuses of equal sort order in different orders.     *)
C8_Witness ==
  /\ HasReturned(1) /\ HasReturned(2)
  /\ Get(result[1].value, "statuses") # Get(result[2].value, "statuses")
  /\ Len(Get(result[1].value, "statuses")) = 2
  /\ Get(result[1].value, "assigned_to") = Get(result[2].value, "assigned_to")

(* C9: a returned mapping has exactly the keys statuses, assigned_to,      *)
(* owners, tags, in that order, each with a sequence; an empty queryset    *)
(* gives a sequence (possibly empty), never a missing key.                 *)
C9_FourKeys ==
  \A i \in Invocations :
    HasReturned(i) =>
      /\ Keys(result[i].value) = Dimensions
      /\ \A n \in 1..Len(result[i].value) :
           DOMAIN result[i].value[n][2] = 1..Len(result[i].value[n][2])

(* A returned mapping over an empty tag queryset: the tags key is there,   *)
(* with the empty sequence.                                                *)
C9_Witness ==
  \E i \in Invocations :
    /\ HasReturned(i)
    /\ querysets["tags"] = {}
    /\ Get(result[i].value, "tags") = <<>>

(* The facets get_userstories_filters_data can compute for a dimension.    *)
Facets(d) ==
  CASE d = "statuses" ->
         {StatusFacet(rows) : rows \in StatusFetchAll(project, querysets["statuses"])}
    [] d = "assigned_to" ->
         {AssignedToFacet(rows) : rows \in AssignedToFetchAll(project, querysets["assigned_to"])}
    [] d = "owners" ->
         {OwnersFacet(rows) : rows \in OwnersFetchAll(project, querysets["owners"])}
    [] d = "tags" -> TagsFacets(querysets["tags"])

(* C10: an invocation in which a query fails hands its caller the          *)
(* exception and no mapping; every mapping returned has all four keys,     *)
(* each with the facet its query computes, none left out or emptied.       *)
C10_AllOrNothing ==
  /\ [](\A i \in Invocations :
          /\ result[i].kind = "raised" => result[i].value = <<>>
          /\ result[i].kind = "returned" =>
               /\ Keys(result[i].value) = Dimensions
               /\ \A n \in 1..Len(result[i].value) :
                    result[i].value[n][2] \in Facets(result[i].value[n][1]))
  /\ [][\A d \in {"statuses", "assigned_to", "owners", "tags"} :
          pc = d /\ pc' = "idle" =>
            result'[inv].kind = "raised" /\ result'[inv].value = <<>>]_vars

(* An invocation whose owners query failed, after the status and assignee  *)
(* facets had been computed: the caller has the exception and no mapping.  *)
C10_Witness ==
  \E i \in Invocations :
    result[i].kind = "raised" /\ result[i].query = "owners" /\ result[i].value = <<>>

----------------------------------------------------------------------------
(* C11: no step of get_userstories_filters_data or of the four functions   *)
(* it calls changes the data store: users, memberships, statuses and user  *)
(* stories, with all their fields, are after every step what they were     *)
(* before it, so they are the same after the call as before it.            *)
C11_StoreUnchanged == [][store' = store]_vars

(* Both invocations have returned their mapping, over a store in which a   *)
(* story has no tags array and the tag facet is not empty.                 *)
C11_Witness ==
  /\ HasReturned(1) /\ HasReturned(2)
  /\ \E us \in StoryIds : userstories[us].tags.is_null
  /\ Len(Get(result[2].value, "tags")) > 0

----------------------------------------------------------------------------
(* C15: the owner facet has at most one record per person: no user id      *)
(* appears in two records of it, whatever memberships the user holds.      *)
C15_OneRecordPerOwner ==
  \A f \in Computed("owners") : \A u \in Users : Cardinality(Records(f, u)) <= 1

----------------------------------------------------------------------------
(* C12: for a wrapped method called on an instance that has the attribute, *)
(* the change is temporary: the wrapped function starts with the attribute *)
(* equal to new_value, and once the call has returned the attribute holds  *)
(* the value it had immediately before the call.                           *)
C12_TemporaryChange ==
  /\ \A n \in 1..Len(calls) :
       calls[n].at \in {"fn", "restore"} /\ calls[n].before # Missing =>
         calls[n].seen = calls[n].new_value
  /\ ended.kind = "returned" /\ ended.before # Missing => ended.after = ended.before

(* A call on an instance whose attribute differed from new_value has       *)
(* returned while an outer call is still in its wrapped function.          *)
C12_Witness ==
  /\ ended.kind = "returned"
  /\ ended.before # Missing /\ ended.before # ended.new_value
  /\ ended.after = ended.before
  /\ calls # <<>>

----------------------------------------------------------------------------
(* C17: for a wrapped method called on an instance that has the attribute, *)
(* the attribute is restored to its value of before the call whenever the  *)
(* call terminates, by return or by an exception of the wrapped function.  *)
C17_RestoredOnException ==
  ended.kind \in {"returned", "raised"} /\ ended.before # Missing =>
    ended.after = ended.before

----------------------------------------------------------------------------
(* C16: starting from a user story in which is_closed is true exactly when *)
(* finish_date is set, after any sequence of close_userstory and           *)
(* open_userstory calls is_closed is still true exactly when finish_date   *)
(* is set, in the instance and in its row; a close of a closed story and   *)
(* an open of an open story change no field, so a repeated close keeps the *)
(* original finish_date.                                                   *)
C16_ClosedIffFinished ==
  /\ story.is_closed <=> story.finish_date # NULL
  /\ saved.is_closed <=> saved.finish_date # NULL
  /\ saved = story
  /\ called.op = "close" /\ called.before.is_closed => story = called.before
  /\ called.op = "open" /\ ~called.before.is_closed => story = called.before
  /\ called.op # "none" => story.status = called.before.status

(* A closed story has been closed again at a later time and still has its  *)
(* first finish_date.                                                      *)
C16_Witness ==
  /\ called.op = "close" /\ called.before.is_closed
  /\ called.at > called.before.finish_date
  /\ story.finish_date = called.before.finish_date

----------------------------------------------------------------------------
(* C13: WikiViewSet.render validates its arguments before it touches the   *)
(* project: missing or empty content is answered WrongArguments about      *)
(* content, whatever project_id is; content with a missing or empty        *)
(* project_id is answered WrongArguments about project_id; both given but  *)
(* no project of that id is answered 404; the rendered content is returned *)
(* exactly when all three checks pass; and no render writes anything.      *)
C13_RenderValidates ==
  /\ [](response.op = "render" =>
          /\ NotContent(response.content) =>
               response.kind = "WrongArguments" /\ response.about = "content"
          /\ ~NotContent(response.content) /\ NotProjectId(response.project_id) =>
               response.kind = "WrongArguments" /\ response.about = "project_id"
          /\ /\ ~NotContent(response.content)
             /\ ~NotProjectId(response.project_id)
             /\ response.project_id \notin DOMAIN projects_project
             => response.kind = "Http404"
          /\ response.kind = "Response" <=>
               /\ ~NotContent(response.content)
               /\ ~NotProjectId(response.project_id)
               /\ response.project_id \in DOMAIN projects_project
          /\ response.kind = "Response" =>
               response.data = mdrender(response.project_id, response.content)
          /\ response.kind # "Response" => response.data = <<>>)
  /\ [][response'.op = "render" => wikiStore' = wikiStore]_vars

(* A request with neither content nor project_id was answered              *)
(* WrongArguments about content, with a wiki page already stored.          *)
C13_Witness ==
  /\ response.op = "render"
  /\ response.content = None /\ response.project_id = NULL
  /\ response.kind = "WrongArguments" /\ response.about = "content"
  /\ wiki_wikipage # {}

----------------------------------------------------------------------------
(* C14: a wiki page is saved through WikiViewSet only for the owner of the *)
(* page's project or a user with a membership in that project: for every   *)
(* other requesting user pre_conditions_on_save raises PermissionDenied    *)
(* and the save does not happen.                                           *)
C14_SaveByOwnerOrMember ==
  /\ [](response.op = "save" =>
          LET allowed ==
                \/ projects_project[response.project_id].owner = response.user
                \/ \E m \in wiki_memberships :
                     m.project = response.project_id /\ m.user = response.user
          IN  /\ response.kind = "Saved" => allowed
              /\ ~allowed => response.kind = "PermissionDenied")
  /\ [][response'.op = "save" /\ response'.kind = "PermissionDenied" =>
          wiki_wikipage' = wiki_wikipage]_vars

(* A user who is a member of another project only, and not the owner, was  *)
(* denied the save of a page that a permitted user had stored before.      *)
C14_Witness ==
  /\ response.op = "save" /\ response.kind = "PermissionDenied"
  /\ \E m \in wiki_memberships :
       m.user = response.user /\ m.project # response.project_id
  /\ \E page \in wiki_wikipage :
       page.project = response.project_id /\ page.owner # response.user

====
